---- MODULE Spec2Model ----
(***************************************************************************)
(* Model of the label archiver (gmail_label_archiver.py): the orchestrator *)
(* archive_messages_with_label, its thread pool, and the per-message retry *)
(* loop process_single_message, run against a Gmail IMAP mailbox whose     *)
(* calls may answer OK, answer NO, or raise; of its _load_config,          *)
(* find_all_mail_folder, connect and disconnect; of the main loop of       *)
(* gmail_trash_cleaner.py; and of count_inbox_messages_for_label of        *)
(* gmail_label_lister.py.                                                  *)
(***************************************************************************)
EXTENDS Integers, Sequences, FiniteSets, TLC

\* Number of messages in the account of an ordinary sweep (all carry the
\* user's label).
NumMsgs == 2
\* Number of messages in the account of a sweep that saturates the thread
\* pool: it begins with all of them in the inbox.
PoolMsgs == 4
\* Longest folder listing handed to find_all_mail_folder.
MaxFolders == 2
\* Number of cycles of the trash cleaner's main loop that are followed.
MaxCycles == 5
\* Calls a client makes on an archiver or a trash cleaner.
MaxCalls == 4
\* Iterations of the label lister's retry loop in which the server may fail.
MaxTries == 3
\* Messages in the trash when the trash cleaner begins to delete.
MaxTrash == 2
\* batch_size of the trash cleaner's config (25 by default).
TrashBatch == 1
\* max_retries of the trash cleaner's config.
TrashMaxRetries == 3
\* max_retries of GmailManager.delete_messages_from_trash.
ManagerMaxRetries == 3
\* The 10 years of GmailManager's window limit, in days.
LimitDays == 2
\* Number of NO answers / raised errors / stale answers the IMAP server may
\* give to worker sessions during one sweep, or to one deletion call.
MaxFaults == 1
\* The days from datetime.min to now: datetime.min lies far beyond the
\* limit, further than the transient faults of one call carry the window.
MinDay == LimitDays + MaxFaults + 3
\* max_retries = 3, the attempt budget of process_single_message.
MaxRetries == 3
\* ThreadPoolExecutor(max_workers=3).
MaxWorkers == 3
\* config.setdefault('batch_size', 25) and config.setdefault('max_retries', 3).
DefaultBatchSize == 25
DefaultMaxRetries == 3

INBOX == "\\Inbox"
USER_LABEL == "label_name"


VARIABLES
  \* ---- the remote mailbox
  labels,        \* labels[m]: the Gmail labels on message m (X-GM-LABELS)
  seen,          \* seen[m]: the \Seen flag of message m
  msgidOf,       \* msgidOf[m]: the Message-ID header of message m (fixed;
                 \* messages 1 and 2 may carry the same one)
  faults,        \* faults the server has given to worker sessions so far
  selectable,    \* the folders a SELECT can open at all (fixed)
  \* ---- archive_messages_with_label (the coordinator thread)
  cpc,           \* where the coordinator is
  inbox_uids,    \* the candidate list (line 374)
  future_to_uid, \* number of candidates submitted so far (line 384)
  queue,         \* the executor's work queue
  collected,     \* futures already consumed from as_completed
  archived,      \* line 378, 395
  pbar,          \* the progress bar's count (line 399)
  passes,        \* how often the mark-read pass of lines 403-430 was run
  not_started,   \* the candidates no thread had taken when Ctrl+C arrived
  \* ---- process_single_message, one invocation per submitted uid
  pc,            \* where the invocation for uid u is
  attempt,       \* the loop index of line 247
  thread_imap,   \* this attempt's session: "None", "open" or "closed"
  msgid,         \* line 272
  all_mail_uid,  \* line 288
  post_inbox,    \* line 300: unset, or what the search answer was split into:
                 \* nothing ("empty"), UIDs ("found") or an "error text"
  how,           \* how this attempt's try statement was left ("none" inside it)
  result,        \* the future's result: "pending", "True" or "False"
  \* ---- observations of what has been done
  invoked,       \* how often uid u was handed to a worker
  attempts,      \* how many attempts were begun for uid u
  lagged,        \* an attempt for uid u found no match in All Mail
  sleeps,        \* the backoff sleeps taken for uid u, in order
  storeOK,       \* this attempt's \Inbox-removal STORE answered OK
  moves,         \* the answers to the UID MOVEs issued in this attempt
  marked,        \* the answers to the \Seen STOREs of this attempt: the one of
                 \* line 295 (after) and the one of line 311 (fallback)
  err,           \* where errors were raised in this attempt: "try", "logout"
  target,        \* the All Mail UID the \Inbox removal was last issued on
  onSession,     \* the sessions this attempt has issued commands on
  mutations,     \* mutations[m]: completed archive mutations of m (capped at 2)
  \* ---- __init__
  config,        \* self.config, as _load_config returned it (fixed)
  \* ---- find_all_mail_folder
  imap,          \* self.imap: "None" or "connected"
  listing,       \* what self.imap.list() does: raises, or the lines it returns
  resolved,      \* the outcome of the call
  \* ---- main of gmail_trash_cleaner.py
  mpc,           \* where main is
  gmail,         \* main's local `gmail`: "unbound" or "bound"
  gmail_imap,    \* gmail.imap: "None" or "connected"
  pending,       \* what is propagating while the finally clause runs
  ended_by,      \* what ended the loop
  cycles,        \* iterations of `while True` begun
  connects,      \* successful connects
  disconnects,   \* disconnects of a connected cleaner
  \* ---- connect and disconnect called by any client
  lister,        \* count_inbox_messages_for_label of gmail_label_lister.py:
                 \* where it is (pc), self.imap, the iterations of `while
                 \* True` begun (tries), how the last iteration ended (exit),
                 \* the answer to the last SEARCH (via) and the value returned
  calls,         \* the calls made so far, in order: the object, the method,
                 \* self.imap before and after it, the logout() calls it
                 \* issued and how logout() ended
  deleter,       \* delete_messages_from_trash of the trash cleaner: where it
                 \* is (pc), whether the session answers (conn), the messages
                 \* in the trash and those flagged \Deleted, the messages the
                 \* server refuses to flag, total, deleted_count, the rest of
                 \* the batch, retry_count, the transient faults so far and
                 \* how the call ended (exit)
  manager        \* delete_messages_from_trash of GmailManager: the same
                 \* fields, and the day each message is dated (day, in days
                 \* before now), end_date and start_date (in days before now)

\* The messages of the account.
Msgs == DOMAIN labels

mailbox  == <<labels, seen, msgidOf>>
\* The variables of the programs modelled beside the sweep.
folderVars == <<imap, listing, resolved>>
trashVars == <<mpc, gmail, gmail_imap, pending, ended_by, cycles, connects, disconnects>>
sessionVars == <<lister, calls>>
deleteVars == <<deleter, manager>>
aux      == <<config, folderVars, trashVars, sessionVars, deleteVars>>
env      == <<selectable, not_started, aux>>
coord    == <<cpc, inbox_uids, future_to_uid, collected, archived, pbar, passes>>
workerVars == <<pc, attempt, thread_imap, msgid, all_mail_uid, post_inbox, how, result,
                invoked, attempts, lagged, sleeps, storeOK, moves, marked, err, target, onSession,
                mutations>>
sweep    == <<mailbox, faults, selectable, not_started, coord, queue, workerVars>>
vars == <<labels, seen, msgidOf, faults, selectable, cpc, inbox_uids, future_to_uid, queue,
          collected, archived, pbar, passes, not_started, pc, attempt, thread_imap, msgid,
          all_mail_uid, post_inbox, how, result, invoked, attempts, lagged,
          sleeps, storeOK, moves, marked, err, target, onSession, mutations,
          config, imap, listing, resolved,
          mpc, gmail, gmail_imap, pending, ended_by, cycles, connects, disconnects,
          lister, calls, deleter, manager>>

----------------------------------------------------------------------------
\* Helpers

RECURSIVE Pow2(_)
Pow2(n) == IF n = 0 THEN 1 ELSE 2 * Pow2(n - 1)

Min(S) == CHOOSE x \in S : \A y \in S : x <= y

\* The UIDs of a SEARCH answer, in the server's (ascending) order.
RECURSIVE Ascending(_)
Ascending(S) == IF S = {} THEN <<>> ELSE <<Min(S)>> \o Ascending(S \ {Min(S)})

\* A message's UID in INBOX and its UID in All Mail are different numbers.
InboxUid(m) == m
AllMailUid(m) == IF m <= NumMsgs THEN NumMsgs + 1 - m ELSE m
InboxMsg(uid) == uid
AllMailMsg(uid) == IF uid <= NumMsgs THEN NumMsgs + 1 - uid ELSE uid

----------------------------------------------------------------------------
\* The IMAP commands of the archiver and what they do to the mailbox

\* The labels named in the STORE of line 291.
RemovedEveryLabel == {INBOX, USER_LABEL}
RemovedLabels == {INBOX}

\* uid('STORE', all_mail_uid, '-X-GM-LABELS', '(\Inbox)') with All Mail selected.
StoreRemoveLabels(lbls, uid) ==
  [m \in Msgs |-> IF AllMailUid(m) = uid THEN lbls[m] \ RemovedLabels ELSE lbls[m]]

\* uid('STORE', all_mail_uid, '+FLAGS', '(\Seen)') with All Mail selected.
StoreSeenToggle(sn, uid) ==
  [m \in Msgs |-> IF AllMailUid(m) = uid THEN ~sn[m] ELSE sn[m]]
StoreSeen(sn, uid) ==
  [m \in Msgs |-> sn[m] \/ AllMailUid(m) = uid]

\* uid('MOVE', inbox_uid, all_mail_folder) with INBOX selected: the message
\* leaves INBOX and keeps its other labels; an unknown UID moves nothing.
UidMove(lbls, uid) ==
  [m \in Msgs |-> IF InboxUid(m) = uid /\ INBOX \in lbls[m]
                    THEN lbls[m] \ {INBOX} ELSE lbls[m]]

\* uid('STORE', all_mail_uid, '+FLAGS', '(\Seen)') of line 311, issued while
\* INBOX is the selected folder: the UID is read as an INBOX UID.
StoreSeenInbox(lbls, sn, uid) ==
  [m \in Msgs |-> sn[m] \/ (InboxUid(m) = uid /\ INBOX \in lbls[m])]

\* uid('SEARCH', None, 'X-GM-RAW', '"rfc822msgid:<msgid>"') in All Mail.
SearchAllMail(id) ==
  Ascending({AllMailUid(m) : m \in {x \in Msgs : msgidOf[x] = id}})

\* The subscript [0] of line 288.
IndexLast(uids) == uids[Len(uids)]
Index0(uids) == uids[1]

\* all_mail_uids[0] of line 288.
ReusedInboxUid(u, uids) == u
ResolvedUid(u, uids) == Index0(uids)

\* uid('SEARCH', None, 'X-GM-RAW', '"in:inbox rfc822msgid:<msgid>"') in INBOX.
SearchInbox(lbls, id) ==
  {InboxUid(m) : m \in {x \in Msgs : INBOX \in lbls[x] /\ msgidOf[x] = id}}

\* The query of line 299, run by the verification step.
CandidateQueryAgain(lbls, id) ==
  {InboxUid(m) : m \in {x \in Msgs : {USER_LABEL, INBOX} \subseteq lbls[x]}}
VerificationQuery(lbls, id) == SearchInbox(lbls, id)

\* post_inbox of line 300: data[0].split(), whatever the status was.
Unset == [kind |-> "unset", uids |-> {}]
Split(status, uids) ==
  IF status = "NO" THEN [kind |-> "error text", uids |-> {}]
  ELSE [kind |-> IF uids = {} THEN "empty" ELSE "found", uids |-> uids]

\* uid('SEARCH', None, 'X-GM-RAW', '"label:<label_name> in:inbox"') in INBOX.
CandidateQuery(lbls) ==
  Ascending({InboxUid(m) : m \in {x \in Msgs : {USER_LABEL, INBOX} \subseteq lbls[x]}})

\* uid('SEARCH', None, 'X-GM-RAW', '"label:<label_name> is:unread"') on the
\* coordinator's session, whose selected folder is still INBOX (line 363).
UnreadQuery(lbls, sn) ==
  {InboxUid(m) : m \in {x \in Msgs : {USER_LABEL, INBOX} \subseteq lbls[x] /\ ~sn[x]}}

\* The archive mutation on one All Mail UID when both STOREs answer OK.
ArchiveMutation(mb, uid) ==
  [labels |-> StoreRemoveLabels(mb.labels, uid), seen |-> StoreSeen(mb.seen, uid)]

----------------------------------------------------------------------------
\* _load_config

\* dict.setdefault.
SetDefault(d, key, value) ==
  IF key \in DOMAIN d THEN d
  ELSE [k \in DOMAIN d \cup {key} |-> IF k = key THEN value ELSE d[k]]

\* The optional settings a config.yml may hold.
ConfigFiles ==
  {[k \in keys |-> IF k = "max_retries" THEN r ELSE b] :
     keys \in SUBSET {"batch_size", "max_retries"}, r \in {1, 5}, b \in {10}}

\* Lines 86-93.
LoadConfig(yaml) ==
  SetDefault(SetDefault(yaml, "batch_size", DefaultBatchSize),
             "max_retries", DefaultMaxRetries)

----------------------------------------------------------------------------
\* find_all_mail_folder

\* A folder name is a prefix followed by words separated by single spaces:
\* "[Gmail]/All Mail" is the prefix "[Gmail]/" and the words "All", "Mail".
Name(prefix, words) == [prefix |-> prefix, words |-> words]
NoName == Name("", <<>>)
FolderNames ==
  { Name("", <<"INBOX">>),
    Name("[Gmail]/", <<"All", "Mail">>),
    Name("[Gmail]/", <<"Tous", "les", "messages">>),
    Name("[Gmail]/", <<"Alle", "Nachrichten">>),
    Name("Lists/", <<"All", "Mail", "2019">>) }

\* One item of the LIST answer: a line `(attrs) "delim" "name"` as bytes, or
\* None, which imaplib gives as the only item of an empty answer.
Lines ==
  [bytes : {TRUE}, attrs : {{}, {"\\All"}}, delim : {"/", "."}, name : FolderNames]
    \cup {[bytes |-> FALSE, attrs |-> {}, delim |-> "/", name |-> NoName]}

RECURSIVE SeqsUpTo(_, _)
SeqsUpTo(S, n) ==
  IF n = 0 THEN {<<>>}
  ELSE LET shorter == SeqsUpTo(S, n - 1) IN
       shorter \cup {Append(q, x) : q \in {p \in shorter : Len(p) = n - 1}, x \in S}

Listings ==
  {[raises |-> TRUE, folders |-> <<>>]}
    \cup {[raises |-> FALSE, folders |-> f] : f \in SeqsUpTo(Lines, MaxFolders)}

\* Line 184: the substrings looked for in the decoded line.
Markers == {<<"All", "Mail">>, <<"Tous", "les", "messages">>, <<"Todos", "los", "mensajes">>}

\* `marker in decoded`: the marker's words stand next to each other in the line.
Contains(words, marker) ==
  \E i \in 0..(Len(words) - Len(marker)) :
    \A k \in 1..Len(marker) : words[i + k] = marker[k]

\* Lines 186-189: the text after the last `"/"`, or the last blank-separated
\* token of the line, without quotes.
FolderName(line) ==
  IF line.delim = "/" THEN line.name
  ELSE IF Len(line.name.words) = 1 THEN line.name
  ELSE Name("", <<line.name.words[Len(line.name.words)]>>)

Returned(name) == [kind |-> "returned", error |-> "", name |-> name]
Raised(error) == [kind |-> "raised", error |-> error, name |-> NoName]
NotCalled == [kind |-> "not called", error |-> "", name |-> NoName]

\* Line 193.
DefaultFolder == Name("[Gmail]/", <<"All", "Mail">>)

\* Lines 181-193: the loop over the lines; None has no decode method.
RECURSIVE Scan(_)
Scan(folders) ==
  IF folders = <<>> THEN Returned(DefaultFolder)
  ELSE IF ~Head(folders).bytes THEN Raised("AttributeError")
  ELSE IF \E mk \in Markers : Contains(Head(folders).name.words, mk)
         THEN Returned(FolderName(Head(folders)))
  ELSE Scan(Tail(folders))

\* Lines 195-197: the handler of the try statement.
Propagated(outcome) == outcome
Handled(outcome) == IF outcome.kind = "raised" THEN Returned(DefaultFolder) ELSE outcome

\* Lines 174-197.
find_all_mail_folder(session, lst) ==
  IF session = "None" THEN Raised("ConnectionError")
  ELSE Handled(IF lst.raises THEN Raised("error") ELSE Scan(lst.folders))

FindAllMailFolder ==
  /\ resolved.kind = "not called"
  /\ resolved' = find_all_mail_folder(imap, listing)
  /\ UNCHANGED <<config, imap, listing, trashVars, sessionVars, deleteVars>>

\* The resolver is not being looked at.
NoResolver ==
  /\ config = LoadConfig(<<>>)
  /\ imap = "connected"
  /\ listing = [raises |-> FALSE, folders |-> <<>>]
  /\ resolved = NotCalled

----------------------------------------------------------------------------
\* count_inbox_messages_for_label (gmail_label_lister.py lines 154-197), one
\* step per call to the server

\* The lister is connected (main, line 264) and has not been asked to count.
NoLister ==
  lister = [pc |-> "top", imap |-> "connected", tries |-> 0, exit |-> "none",
            via |-> "none", returned |-> -1]

\* The server may fail in the first MaxTries iterations only.
MayFail == lister.tries <= MaxTries

\* Lines 108-119 of gmail_label_lister.py: disconnect().
ListerDisconnect(session) == "None"

\* Lines 191-197: the handler of every Exception raised in the loop body
\* prints, disconnects, sleeps and continues; nothing in it raises.
ListerHandler(l, e) ==
  [l EXCEPT !.pc = "top", !.exit = "exception", !.imap = ListerDisconnect(l.imap)]

\* Lines 165-173: a new iteration; without a session connect() is called
\* (lines 100-106), which returns False after IMAP4_SSL or login raised; a
\* failed login leaves the unauthenticated session in self.imap.
ListerTop ==
  /\ lister.pc = "top"
  /\ \E r \in {"True", "no socket", "no login"} :
       /\ r # "True" => MayFail
       /\ lister' =
            LET l == [lister EXCEPT !.tries = Min({lister.tries + 1, MaxTries + 1}),
                                    !.via = "none"] IN
            IF lister.imap # "None" THEN [l EXCEPT !.pc = "select"]
            ELSE IF r = "True" THEN [l EXCEPT !.pc = "select", !.imap = "connected"]
            ELSE [l EXCEPT !.exit = "connect failed",
                           !.imap = IF r = "no login" THEN "unauthenticated" ELSE "None"]
  /\ UNCHANGED <<sweep, config, folderVars, trashVars, calls, deleteVars>>

\* Lines 176-180: select('INBOX', readonly=True).
ListerSelect ==
  /\ lister.pc = "select"
  /\ \E r \in {"OK", "NO", "raises"} :
       /\ r # "OK" => MayFail
       /\ lister.imap = "unauthenticated" => r = "raises"
       /\ lister' =
            IF r = "OK" THEN [lister EXCEPT !.pc = "search"]
            ELSE IF r = "NO" THEN [lister EXCEPT !.pc = "top", !.exit = "select NO"]
            ELSE ListerHandler(lister, r)
  /\ UNCHANGED <<sweep, config, folderVars, trashVars, calls, deleteVars>>

\* Lines 183-189: the search and the return statements.
ListerSearch ==
  /\ lister.pc = "search"
  /\ \E r \in {"OK", "NO", "raises"} :
       /\ r # "OK" => MayFail
       /\ lister' =
            IF r = "OK"
              THEN [lister EXCEPT !.pc = "returned", !.via = r, !.exit = "return",
                                  !.returned = Len(CandidateQuery(labels))]
            ELSE IF r = "NO"
              THEN [lister EXCEPT !.pc = "returned", !.via = r, !.exit = "return",
                                  !.returned = 0]
            ELSE ListerHandler(lister, r)
  /\ UNCHANGED <<sweep, config, folderVars, trashVars, calls, deleteVars>>

----------------------------------------------------------------------------
\* delete_messages_from_trash of gmail_trash_cleaner.py (lines 241-335), one
\* step per call to the server

\* The messages the trash may hold; the message numbers of a SEARCH follow
\* their order and stay as they are until the next EXPUNGE.
TrashMsgs == 1..MaxTrash

\* No deletion is being looked at.
Idle ==
  [pc |-> "idle", conn |-> "ok", trash |-> {}, flagged |-> {}, refused |-> {},
   total |-> 0, deleted_count |-> 0, batch |-> <<>>, retry_count |-> 0,
   faults |-> 0, exit |-> "none"]
NoDeleter == deleter = Idle

\* The call begins on a connected cleaner: the trash holds n messages, some
\* of which the server refuses to flag; main passes the count it read
\* (lines 363-366), and a call without `total` reads the same count from
\* SELECT (line 268).
Called(n, refused) ==
  [Idle EXCEPT !.pc = "select", !.trash = 1..n, !.refused = refused, !.total = n]

\* The call is over.
Ended(d, exit) == [d EXCEPT !.pc = "returned", !.exit = exit, !.batch = <<>>]

\* A transient fault of the server: at most MaxFaults in a call.
Transient(d, r) ==
  [d EXCEPT !.faults = IF r \in {"NO", "raises", "drops"} THEN @ + 1 ELSE @]
Allowed(d, r) == r \in {"NO", "raises", "drops"} => d.faults < MaxFaults

\* self.connect() of lines 89-109 followed by the SELECT of line 314 (324);
\* c is what connect() returns.
Reconnected(c) == IF c = "True" THEN "ok" ELSE "dead"

\* messages[0].split()[:batch_size] of line 288.
FirstBatch(trash, size) ==
  LET nums == Ascending(trash) IN SubSeq(nums, 1, Min({size, Len(nums)}))

\* Lines 259-277: SELECT of the trash folder and the tests of `total`. An
\* exception raised here reaches the handler of line 334, whose second print
\* reads deleted_count before line 277 has bound it.
DeleterSelect ==
  /\ deleter.pc = "select"
  /\ \E r \in {"OK", "NO", "raises"} :
       /\ Allowed(deleter, r)
       /\ deleter' =
            LET d == Transient(deleter, r) IN
            IF r = "NO" THEN Ended(d, "no access")
            ELSE IF r = "raises" THEN Ended(d, "raised")
            ELSE IF d.total = 0 THEN Ended(d, "already empty")
            ELSE [d EXCEPT !.pc = "search", !.deleted_count = 0]
  /\ UNCHANGED <<sweep, config, folderVars, trashVars, sessionVars, manager>>

\* Lines 282-290: the search for ALL at the top of the outer loop and the
\* first batch_size message numbers of its answer.
DeleterSearch ==
  /\ deleter.pc = "search"
  /\ \E r \in {"OK", "NO", "raises", "dead"} :
       /\ Allowed(deleter, r)
       /\ (deleter.conn = "dead") <=> (r = "dead")
       /\ deleter' =
            LET d == Transient(deleter, r) IN
            IF r \in {"raises", "dead"} THEN Ended(d, "error")
            ELSE IF r = "NO" THEN Ended(d, "search NO")
            ELSE IF d.trash = {} THEN Ended(d, "search empty")
            ELSE [d EXCEPT !.pc = "store", !.retry_count = 0,
                           !.batch = FirstBatch(d.trash, TrashBatch)]
  /\ UNCHANGED <<sweep, config, folderVars, trashVars, sessionVars, manager>>

\* The step after the retry loop of a message is left: the next message of
\* the batch, or the EXPUNGE of line 320.
NextMessage(d) ==
  [d EXCEPT !.batch = Tail(@), !.retry_count = 0,
            !.pc = IF Tail(d.batch) = <<>> THEN "expunge" ELSE "store"]

\* Line 295: is there another attempt after n failed ones.
RetryAgain(n) == n < TrashMaxRetries

\* Lines 295-316: one iteration of the retry loop of the message at the head
\* of the batch. A STORE that returns, with OK or with NO, is counted and
\* ends the loop; one that raises is retried after NOOP and, if NOOP raises
\* too, after a reconnection.
DeleterStore ==
  /\ deleter.pc = "store"
  /\ \E r \in {"OK", "NO", "raises", "drops", "refused", "dead"}, c \in {"True", "False"} :
       LET num == Head(deleter.batch)
           d == Transient(deleter, r)
       IN
       /\ Allowed(deleter, r)
       /\ (deleter.conn = "dead") <=> (r = "dead")
       /\ deleter.conn = "ok" => ((num \in deleter.refused) <=> (r = "refused"))
       /\ r \notin {"drops", "dead"} => c = "True"
       /\ deleter' =
            IF r \in {"OK", "NO"}
              THEN NextMessage([d EXCEPT !.deleted_count = @ + 1,
                                         !.flagged = IF r = "OK" THEN @ \cup {num} ELSE @])
            ELSE IF RetryAgain(d.retry_count + 1)
              THEN [d EXCEPT !.retry_count = @ + 1,
                             !.conn = IF r \in {"drops", "dead"} THEN Reconnected(c) ELSE @]
            ELSE NextMessage([d EXCEPT !.conn = IF r = "drops" THEN "dead" ELSE @])
  /\ UNCHANGED <<sweep, config, folderVars, trashVars, sessionVars, manager>>

\* Lines 318-332: EXPUNGE, which removes what is flagged; if it raises, a
\* reconnection; then the test of deleted_count against total.
DeleterExpunge ==
  /\ deleter.pc = "expunge"
  /\ \E r \in {"OK", "raises", "dead"}, c \in {"True", "False"} :
       LET d == Transient(deleter, r)
           after == IF r = "OK"
                      THEN [d EXCEPT !.trash = @ \ d.flagged, !.flagged = {}]
                      ELSE [d EXCEPT !.conn = Reconnected(c)]
       IN
       /\ Allowed(deleter, r)
       /\ (deleter.conn = "dead") <=> (r = "dead")
       /\ r = "OK" => c = "True"
       /\ deleter' =
            IF after.deleted_count >= after.total THEN Ended(after, "count reached")
            ELSE [after EXCEPT !.pc = "search"]
  /\ UNCHANGED <<sweep, config, folderVars, trashVars, sessionVars, manager>>

----------------------------------------------------------------------------
\* delete_messages_from_trash of gmail_manager.py (lines 121-245), one step
\* per call to the server. Dates are counted in days before now: end_date is
\* now minus `end` days, and the window of a search holds the messages dated
\* `end` days back.

\* No deletion by a GmailManager is being looked at.
ManagerIdle ==
  [pc |-> "idle", conn |-> "ok", trash |-> {}, flagged |-> {}, refused |-> {},
   total |-> 0, deleted_count |-> 0, batch |-> <<>>, retry_count |-> 0,
   faults |-> 0, exit |-> "none", day |-> <<>>, end |-> 0, start |-> 0]
NoManager == manager = ManagerIdle

\* The call begins on a connected manager, end_date = now (line 145).
ManagerCalled(days, refused) ==
  [ManagerIdle EXCEPT !.pc = "select", !.trash = DOMAIN days, !.day = days,
                      !.refused = refused, !.total = Len(days)]

\* Line 149: start_date = end_date - window_size; datetime cannot go below
\* datetime.min, MinDay days back, and raises OverflowError there.
Overflows(end) == end >= MinDay
StartDate(end) == end + 1

\* Line 162: end_date < datetime.now() - timedelta(days=365*10).
BeyondLimit(end) == end > LimitDays

\* Lines 152-157 (and 214): the messages of the window, in message-number
\* order.
InWindow(m) == {x \in m.trash : m.day[x] = m.end}

\* Lines 223-232: the window is left for the previous day; NOOP, and a
\* reconnection when NOOP raises; c is what connect() returns.
PreviousDay(m, c) ==
  [m EXCEPT !.pc = "window", !.end = m.start, !.batch = <<>>,
            !.conn = IF m.conn = "dead" THEN Reconnected(c) ELSE @]

\* An exception leaves the outer try statement of line 148 for its handler.
OnDateError(m) == [m EXCEPT !.pc = "handler", !.batch = <<>>]

\* Lines 126-142: SELECT of the trash folder and the tests of `total`; an
\* exception goes to the handler of line 244.
ManagerSelect ==
  /\ manager.pc = "select"
  /\ \E r \in {"OK", "NO", "raises"} :
       /\ Allowed(manager, r)
       /\ manager' =
            LET m == Transient(manager, r) IN
            IF r = "NO" THEN Ended(m, "no access")
            ELSE IF r = "raises" THEN Ended(m, "error")
            ELSE IF m.total = 0 THEN Ended(m, "already empty")
            ELSE [m EXCEPT !.pc = "window", !.deleted_count = 0, !.end = 0]
  /\ UNCHANGED <<sweep, config, folderVars, trashVars, sessionVars, deleter>>

\* Lines 148-170: one iteration of the outer loop up to the first batch: the
\* window is computed and searched. An empty or refused answer moves the
\* window back and tests the 10-year limit; an exception, of the search or
\* of the date arithmetic, goes to the handler of line 237.
ManagerWindow ==
  /\ manager.pc = "window"
  /\ \E r \in {"OK", "NO", "raises", "drops", "dead", "overflow"} :
       LET m == [Transient(manager, r) EXCEPT
                   !.start = IF r = "overflow" THEN @ ELSE StartDate(manager.end)]
           found == InWindow(m)
       IN
       /\ Allowed(manager, r)
       /\ Overflows(manager.end) <=> (r = "overflow")
       /\ ~Overflows(manager.end) => ((manager.conn = "dead") <=> (r = "dead"))
       /\ manager' =
            IF r \in {"raises", "dead", "overflow"} THEN OnDateError(m)
            ELSE IF r = "drops" THEN OnDateError([m EXCEPT !.conn = "dead"])
            ELSE IF r = "NO" \/ found = {}
              THEN IF BeyondLimit(m.start) THEN Ended([m EXCEPT !.end = m.start], "limit")
                   ELSE [m EXCEPT !.end = m.start]
            ELSE [m EXCEPT !.pc = "store", !.retry_count = 0,
                           !.batch = FirstBatch(found, TrashBatch)]
  /\ UNCHANGED <<sweep, config, folderVars, trashVars, sessionVars, deleter>>

\* Lines 237-242: the handler of the outer try statement prints, moves the
\* window to start_date, sleeps and continues; the limit is not tested here.
ManagerHandler ==
  /\ manager.pc = "handler"
  /\ manager' = [manager EXCEPT !.pc = "window", !.end = manager.start]
  /\ UNCHANGED <<sweep, config, folderVars, trashVars, sessionVars, deleter>>

\* Line 183: is there another attempt after n failed ones.
ManagerRetryAgain(n) == n < ManagerMaxRetries

\* Lines 181-200: one iteration of the retry loop of the message at the head
\* of the batch (the statements of lines 295-316 of the trash cleaner).
ManagerStore ==
  /\ manager.pc = "store"
  /\ \E r \in {"OK", "NO", "raises", "drops", "refused", "dead"}, c \in {"True", "False"} :
       LET num == Head(manager.batch)
           m == Transient(manager, r)
       IN
       /\ Allowed(manager, r)
       /\ (manager.conn = "dead") <=> (r = "dead")
       /\ manager.conn = "ok" => ((num \in manager.refused) <=> (r = "refused"))
       /\ r \notin {"drops", "dead"} => c = "True"
       /\ manager' =
            IF r \in {"OK", "NO"}
              THEN NextMessage([m EXCEPT !.deleted_count = @ + 1,
                                         !.flagged = IF r = "OK" THEN @ \cup {num} ELSE @])
            ELSE IF ManagerRetryAgain(m.retry_count + 1)
              THEN [m EXCEPT !.retry_count = @ + 1,
                             !.conn = IF r \in {"drops", "dead"} THEN Reconnected(c) ELSE @]
            ELSE NextMessage([m EXCEPT !.conn = IF r = "drops" THEN "dead" ELSE @])
  /\ UNCHANGED <<sweep, config, folderVars, trashVars, sessionVars, deleter>>

\* Lines 203-209: EXPUNGE after the batch, with a reconnection if it raises.
ManagerExpunge ==
  /\ manager.pc = "expunge"
  /\ \E r \in {"OK", "raises", "dead"}, c \in {"True", "False"} :
       LET m == Transient(manager, r) IN
       /\ Allowed(manager, r)
       /\ (manager.conn = "dead") <=> (r = "dead")
       /\ r = "OK" => c = "True"
       /\ manager' =
            IF r = "OK"
              THEN [m EXCEPT !.pc = "again", !.trash = @ \ m.flagged, !.flagged = {}]
              ELSE [m EXCEPT !.pc = "again", !.conn = Reconnected(c)]
  /\ UNCHANGED <<sweep, config, folderVars, trashVars, sessionVars, deleter>>

\* Lines 211-232: the window is searched again: the next batch of what it
\* still holds, or, when it is empty, refused or the search raises, the
\* previous day.
ManagerAgain ==
  /\ manager.pc = "again"
  /\ \E r \in {"OK", "NO", "raises", "drops", "dead"}, c \in {"True", "False"} :
       LET m == Transient(manager, r)
           found == InWindow(m)
       IN
       /\ Allowed(manager, r)
       /\ (manager.conn = "dead") <=> (r = "dead")
       /\ r \notin {"drops", "dead"} => c = "True"
       /\ manager' =
            IF r \in {"drops", "dead"} THEN PreviousDay([m EXCEPT !.conn = "dead"], c)
            ELSE IF r \in {"raises", "NO"} \/ found = {} THEN PreviousDay(m, c)
            ELSE [m EXCEPT !.pc = "store", !.retry_count = 0,
                           !.batch = FirstBatch(found, TrashBatch)]
  /\ UNCHANGED <<sweep, config, folderVars, trashVars, sessionVars, deleter>>

----------------------------------------------------------------------------
\* disconnect (gmail_label_archiver.py lines 117-132; the same statements are
\* lines 111-126 of gmail_trash_cleaner.py) and connect, called by any client

\* What self.imap.logout() can do.
LogoutOutcomes == {"OK", "raises"}

\* Lines 131-132: the finally clause assigns self.imap = None.
ClosedIfLoggedOut(session, logout) == IF logout = "raises" THEN session ELSE "None"
MarkedClosed(session, logout) == "None"

\* Lines 125-132: self.imap afterwards and the logout() calls issued; the
\* bare except clause swallows whatever logout() raises.
disconnect(session, logout) ==
  IF session # "None"
    THEN [imap |-> MarkedClosed(session, logout), logouts |-> 1]
    ELSE [imap |-> session, logouts |-> 0]

\* Lines 109-115 (89-109 in the trash cleaner): self.imap after connect();
\* when the constructor IMAP4_SSL raises, nothing is assigned.
connect(session, r) == IF r = "True" THEN "connected" ELSE session

\* The two classes that define the method.
Objects == {"archiver", "cleaner"}
Field(o) == IF o = "archiver" THEN imap ELSE gmail_imap

\* No client call is being looked at.
NoSession ==
  /\ calls = <<>>
  /\ NoLister
  /\ NoDeleter
  /\ NoManager

\* What a client's call leaves alone.
Untouched == <<sweep, config, listing, resolved, mpc, gmail, pending, ended_by, cycles,
               connects, disconnects, lister, deleteVars>>

\* self.imap of object o becomes v.
Assign(o, v) ==
  /\ imap' = IF o = "archiver" THEN v ELSE imap
  /\ gmail_imap' = IF o = "cleaner" THEN v ELSE gmail_imap

CallConnect(o) ==
  /\ Len(calls) < MaxCalls
  /\ \E r \in {"True", "False"} :
       LET after == connect(Field(o), r) IN
       /\ Assign(o, after)
       /\ calls' = Append(calls, [obj |-> o, op |-> "connect", before |-> Field(o),
                                  after |-> after, logouts |-> 0, logout |-> "none"])
  /\ UNCHANGED Untouched

CallDisconnect(o) ==
  /\ Len(calls) < MaxCalls
  /\ \E lo \in LogoutOutcomes :
       LET d == disconnect(Field(o), lo) IN
       /\ Assign(o, d.imap)
       /\ calls' = Append(calls, [obj |-> o, op |-> "disconnect", before |-> Field(o),
                                  after |-> d.imap, logouts |-> d.logouts,
                                  logout |-> IF d.logouts = 0 THEN "none" ELSE lo])
  /\ UNCHANGED Untouched

----------------------------------------------------------------------------
\* main of gmail_trash_cleaner.py (lines 339-387), one step per statement of
\* the loop body

\* The trash cleaner's main has not begun a cycle.
NoCleaner ==
  /\ mpc = "construct"
  /\ gmail = "unbound"
  /\ gmail_imap = "None"
  /\ pending = "none"
  /\ ended_by = "none"
  /\ cycles = 0
  /\ connects = 0
  /\ disconnects = 0

\* What main's steps leave alone.
Beside == <<sweep, config, folderVars, sessionVars, deleteVars>>

\* An exception (or KeyboardInterrupt) leaves the try statement of line 355:
\* KeyboardInterrupt breaks the loop (lines 381-383), any other goes to the
\* handler of line 384.
Caught(e) ==
  /\ mpc' = IF e = "KeyboardInterrupt" THEN "ended" ELSE "handler"
  /\ ended_by' = IF e = "KeyboardInterrupt" THEN e ELSE ended_by

\* Line 357: gmail = GmailTrashCleaner(); the constructor raises when
\* config.yml is missing or not valid, and then nothing is assigned.
Construct ==
  /\ mpc = "construct"
  /\ cycles < MaxCycles
  /\ cycles' = cycles + 1
  /\ \E r \in {"OK", "Exception", "KeyboardInterrupt"} :
       IF r = "OK"
         THEN /\ gmail' = "bound"
              /\ gmail_imap' = "None"
              /\ mpc' = "connect"
              /\ UNCHANGED ended_by
         ELSE /\ Caught(r)
              /\ UNCHANGED <<gmail, gmail_imap>>
  /\ UNCHANGED <<pending, connects, disconnects, Beside>>

\* Line 360: gmail.connect() returns True, or False after catching an error.
Connect ==
  /\ mpc = "connect"
  /\ \E r \in {"True", "False", "KeyboardInterrupt"} :
       /\ gmail_imap' = IF r = "True" THEN "connected" ELSE gmail_imap
       /\ connects' = IF r = "True" THEN connects + 1 ELSE connects
       /\ IF r = "KeyboardInterrupt"
            THEN Caught(r)
            ELSE /\ mpc' = IF r = "True" THEN "clean" ELSE "wait"
                 /\ UNCHANGED ended_by
  /\ UNCHANGED <<gmail, pending, cycles, disconnects, Beside>>

\* Lines 361-368: count the trash and delete it; delete_messages_from_trash
\* can raise out of its own handler (line 335 reads deleted_count).
Clean ==
  /\ mpc = "clean"
  /\ \E r \in {"none", "Exception", "KeyboardInterrupt"} : pending' = r
  /\ mpc' = "disconnect"
  /\ UNCHANGED <<gmail, gmail_imap, ended_by, cycles, connects, disconnects, Beside>>

\* Lines 370-372 with disconnect (lines 111-126): the finally clause, after
\* which whatever was propagating goes on.
Disconnect ==
  /\ mpc = "disconnect"
  /\ \E lo \in LogoutOutcomes : gmail_imap' = disconnect(gmail_imap, lo).imap
  /\ disconnects' = IF gmail_imap = "connected" THEN disconnects + 1 ELSE disconnects
  /\ pending' = "none"
  /\ IF pending = "none"
       THEN mpc' = "wait" /\ UNCHANGED ended_by
       ELSE Caught(pending)
  /\ UNCHANGED <<gmail, cycles, connects, Beside>>

\* Lines 376-379: print and sleep check_interval seconds.
Wait ==
  /\ mpc = "wait"
  /\ \E r \in {"OK", "KeyboardInterrupt"} :
       IF r = "OK" THEN mpc' = "construct" /\ UNCHANGED ended_by ELSE Caught(r)
  /\ UNCHANGED <<gmail, gmail_imap, pending, cycles, connects, disconnects, Beside>>

\* Line 386 evaluates gmail.config['check_interval'] for its message.
ReadInterval(g) == IF g = "unbound" THEN "UnboundLocalError" ELSE "none"

\* Lines 384-387: the handler prints the error, then prints and sleeps the
\* interval; what is raised inside a handler leaves main.
Handler ==
  /\ mpc = "handler"
  /\ \E r \in {"OK", "KeyboardInterrupt"} :
       LET e == ReadInterval(gmail) IN
       IF e # "none" THEN mpc' = "ended" /\ ended_by' = e
       ELSE IF r = "OK" THEN mpc' = "construct" /\ UNCHANGED ended_by
       ELSE mpc' = "ended" /\ ended_by' = r
  /\ UNCHANGED <<gmail, gmail_imap, pending, cycles, connects, disconnects, Beside>>

----------------------------------------------------------------------------
\* What a sweep starts from, whatever the mailbox holds.
Fresh ==
  /\ seen = [m \in Msgs |-> FALSE]
  /\ msgidOf \in {f \in [Msgs -> Msgs] : \A m \in Msgs : f[m] = m \/ (m = 2 /\ f[m] = 1)}
  /\ cpc = "query"
  /\ inbox_uids = <<>>
  /\ future_to_uid = 0
  /\ queue = <<>>
  /\ collected = {}
  /\ archived = 0
  /\ pbar = 0
  /\ passes = 0
  /\ not_started = {}
  /\ pc = [u \in Msgs |-> "new"]
  /\ attempt = [u \in Msgs |-> 0]
  /\ thread_imap = [u \in Msgs |-> "None"]
  /\ msgid = [u \in Msgs |-> 0]
  /\ all_mail_uid = [u \in Msgs |-> 0]
  /\ post_inbox = [u \in Msgs |-> Unset]
  /\ how = [u \in Msgs |-> "none"]
  /\ result = [u \in Msgs |-> "pending"]
  /\ invoked = [u \in Msgs |-> 0]
  /\ attempts = [u \in Msgs |-> 0]
  /\ lagged = [u \in Msgs |-> FALSE]
  /\ sleeps = [u \in Msgs |-> <<>>]
  /\ storeOK = [u \in Msgs |-> FALSE]
  /\ moves = [u \in Msgs |-> <<>>]
  /\ marked = [u \in Msgs |-> [after |-> "none", fallback |-> "none"]]
  /\ err = [u \in Msgs |-> {}]
  /\ target = [u \in Msgs |-> 0]
  /\ onSession = [u \in Msgs |-> {}]
  /\ mutations = [m \in Msgs |-> 0]

\* An ordinary sweep: any of the messages may be in the inbox; the server may
\* answer with faults.
Init ==
  /\ labels \in [1..NumMsgs -> {{USER_LABEL, INBOX}, {USER_LABEL}}]
  /\ Fresh
  /\ faults = 0
  /\ NoResolver
  /\ NoCleaner
  /\ NoSession
  /\ selectable \in {{"INBOX", "All Mail"}, {"INBOX"}, {"All Mail"}}

\* A sweep over a full inbox, more candidates than the pool has threads; the
\* server answers every worker's call.
InitPool ==
  /\ labels = [m \in 1..PoolMsgs |-> {USER_LABEL, INBOX}]
  /\ Fresh
  /\ faults = MaxFaults
  /\ NoResolver
  /\ NoCleaner
  /\ NoSession
  /\ selectable = {"INBOX", "All Mail"}

\* No sweep is being looked at.
NoSweep ==
  /\ labels = [m \in 1..NumMsgs |-> {USER_LABEL}]
  /\ Fresh
  /\ msgidOf = [m \in Msgs |-> m]
  /\ faults = 0
  /\ selectable = {"INBOX", "All Mail"}

\* The finally clause and the loop control of a worker touch nothing but that
\* worker's own session and locals, so they commute with every step of every
\* other thread; they are taken right after the step that left the try
\* statement, before any other thread's next step.
Settled == \A v \in Msgs : pc[v] \notin {"finally", "after"}

----------------------------------------------------------------------------
\* archive_messages_with_label

\* Lines 374-378: an empty candidate list ends the sweep with a message.
AfterQueryMarkRead(found) == IF found = <<>> THEN "second" ELSE "submit"
AfterQuery(found) == IF found = <<>> THEN "done" ELSE "submit"

\* Lines 353-378: resolve All Mail, select INBOX, run the candidate query.
\* An error raised here reaches the handler of line 432, whose second print
\* reads `archived` before line 378 has bound it, so the call raises.
Query ==
  /\ cpc = "query"
  /\ Settled
  /\ \E r \in {"select NO", "search NO", "raise", "OK"} :
       LET found == IF r = "OK" THEN CandidateQuery(labels) ELSE <<>> IN
       /\ "INBOX" \notin selectable => r \in {"select NO", "raise"}
       /\ inbox_uids' = found
       /\ cpc' = IF r = "raise" THEN "raised"
                 ELSE AfterQuery(found)
  /\ UNCHANGED <<env, passes, mailbox, faults, future_to_uid, queue, collected, archived, pbar,
                 workerVars>>

\* Lines 384-387: executor.submit for the next candidate.
Submit ==
  /\ cpc = "submit"
  /\ Settled
  /\ LET u == inbox_uids[future_to_uid + 1] IN
       /\ queue' = Append(queue, u)
       /\ pc' = [pc EXCEPT ![u] = "queued"]
  /\ future_to_uid' = future_to_uid + 1
  /\ cpc' = IF future_to_uid + 1 = Len(inbox_uids) THEN "collect" ELSE "submit"
  /\ UNCHANGED <<env, passes, onSession, mailbox, faults, inbox_uids, collected, archived, pbar,
                 attempt, thread_imap, msgid, all_mail_uid, post_inbox, how, result,
                 invoked, attempts, lagged, sleeps, storeOK, moves, marked, err, target, mutations>>

\* Lines 393-395: the running count of successes.
TallyAll(n, outcome) == n + 1
Tally(n, outcome) == IF outcome = "True" THEN n + 1 ELSE n

\* Lines 390-393: a future is yielded when its call has returned, whatever
\* it returned.
Succeeded(outcome) == outcome = "True"
Completed(outcome) == outcome # "pending"

\* Line 390: as_completed yields each future once.
YieldedAgain(u, done) == TRUE
YieldedOnce(u, done) == u \notin done

\* Lines 390-399: one iteration of the as_completed loop.
Collect(u) ==
  /\ cpc = "collect"
  /\ Settled
  /\ \E i \in 1..future_to_uid : inbox_uids[i] = u
  /\ YieldedOnce(u, collected)
  /\ Completed(result[u])
  /\ collected' = collected \cup {u}
  /\ archived' = Tally(archived, result[u])
  /\ pbar' = pbar + 1
  /\ UNCHANGED <<env, passes, mailbox, faults, cpc, inbox_uids, future_to_uid, queue, workerVars>>

\* The as_completed loop ends when every submitted future has been yielded.
LoopEndsEarly == collected # {} /\ \E u \in collected : result[u] = "False"
LoopEnds == collected = {inbox_uids[i] : i \in 1..Len(inbox_uids)}

\* Lines 399-404: what follows the pool, given the count of successes and the
\* number of candidates.
AfterPoolIfAllArchived(arch, n) == IF arch = n THEN "second" ELSE "done"
AfterPool(arch, n) == "second"

\* Lines 399-401: the loop and the pool are left, the summary is printed.
Finish ==
  /\ cpc = "collect"
  /\ Settled
  /\ LoopEnds
  /\ cpc' = AfterPool(archived, Len(inbox_uids))
  /\ UNCHANGED <<env, passes, mailbox, faults, inbox_uids, future_to_uid, queue, collected,
                 archived, pbar, workerVars>>

\* Lines 403-430: the unread query and the batched \Seen STORE, on the
\* coordinator's session; errors are caught at line 429.
SecondPass ==
  /\ cpc = "second"
  /\ Settled
  /\ \E r \in {"search NO", "store NO", "raise", "OK"} :
       seen' = IF r = "OK"
                 THEN [m \in Msgs |-> seen[m] \/ InboxUid(m) \in UnreadQuery(labels, seen)]
                 ELSE seen
  /\ passes' = passes + 1
  /\ cpc' = "done"
  /\ UNCHANGED <<env, labels, msgidOf, faults, inbox_uids, future_to_uid, queue, collected,
                 archived, pbar, workerVars>>

\* KeyboardInterrupt is raised in the main thread, which runs the
\* coordinator.  Inside the pool (lines 382-399) it leaves the with block,
\* whose exit is executor.shutdown(wait=True); elsewhere it leaves the call at
\* once.  The handler of line 432 catches Exception only, so the interrupt
\* goes on to main (lines 471-472).
Interrupt ==
  /\ cpc \in {"query", "submit", "collect", "second"}
  /\ Settled
  /\ not_started' = {inbox_uids[i] : i \in {j \in 1..Len(inbox_uids) :
                                              pc[inbox_uids[j]] \in {"new", "queued"}}}
  /\ cpc' = IF cpc \in {"submit", "collect"} THEN "shutdown" ELSE "interrupted"
  /\ UNCHANGED <<mailbox, faults, selectable, aux, inbox_uids, future_to_uid, queue, collected,
                 archived, pbar, passes, workerVars>>

\* shutdown(wait=True) joins the pool's threads; they end when the work queue
\* is empty, and no queued work item is cancelled.
Shutdown ==
  /\ cpc = "shutdown"
  /\ Settled
  /\ queue = <<>>
  /\ \A u \in Msgs : pc[u] \in {"new", "done"}
  /\ cpc' = "interrupted"
  /\ UNCHANGED <<mailbox, faults, env, inbox_uids, future_to_uid, queue, collected,
                 archived, pbar, passes, workerVars>>

----------------------------------------------------------------------------
\* process_single_message

\* self.imap, the session the orchestrator connected before the sweep.
SelfImap == <<0, 0>>

\* Line 251: the IMAP4_SSL object that attempt a of the invocation for uid u
\* creates and binds to its local thread_imap; every command of lines 252-325
\* is a method call on that local.
OrchestratorSession(u, a) == SelfImap
ThreadSession(u, a) == <<u, a>>

\* The attempt issues a command on its session.
Command(u) == onSession' = [onSession EXCEPT ![u] = @ \cup {ThreadSession(u, attempt[u])}]

\* The server answers a worker's call with a fault only while its budget lasts.
Inject(r) == r = "OK" \/ faults < MaxFaults
Count(r) == faults' = faults + (IF r = "OK" THEN 0 ELSE 1)

\* Line 276: a folder that cannot be selected at all answers NO to every
\* worker's SELECT, and nothing after the SELECT is reached.
NoSuchFolder(r) == r = "select All Mail NO" /\ "All Mail" \notin selectable
Reached(r) ==
  r \in {"select All Mail raises", "search raises", "search NO", "search empty", "OK"}
    => "All Mail" \in selectable

\* Lines 257-312: the order of the try body's steps: resolve (257-288),
\* mutate (290-295), verify (297-302), fallback (305-312).
VerifyFirst(step) ==
  CASE step = "resolve" -> "verify" [] step = "verify" -> "mutate" [] step = "mutate" -> "fallback"
StepAfter(step) ==
  CASE step = "resolve" -> "mutate" [] step = "mutate" -> "verify" [] step = "verify" -> "fallback"

\* The attempt goes on to its next step.
Goto(u, step) ==
  /\ pc' = [pc EXCEPT ![u] = step]
  /\ UNCHANGED <<how, err>>

\* The try statement is left: by "return" (lines 304, 312) or by "continue"
\* (every other exit of the try body, and the except clause of 317-321 when
\* the body raised). No path falls out of it to line 329.
Leave(u, exit, raised) ==
  /\ pc' = [pc EXCEPT ![u] = "finally"]
  /\ how' = [how EXCEPT ![u] = exit]
  /\ err' = [err EXCEPT ![u] = IF raised THEN {"try"} ELSE {}]

\* The work items a pool thread is running.
Running == {v \in Msgs : pc[v] \notin {"new", "queued", "done"}}

\* ThreadPoolExecutor(max_workers=3): a work item is taken off the queue only
\* by one of the pool's threads, when that thread has nothing to run.
AnyThread(busy) == TRUE
IdleThread(busy) == Cardinality(busy) < MaxWorkers

\* A pool thread takes the next work item (at most max_workers run at once).
Start(u) ==
  /\ Settled
  /\ queue # <<>>
  /\ Head(queue) = u
  /\ IdleThread(Running)
  /\ queue' = Tail(queue)
  /\ pc' = [pc EXCEPT ![u] = "resolve"]
  /\ attempt' = [attempt EXCEPT ![u] = 0]
  /\ invoked' = [invoked EXCEPT ![u] = @ + 1]
  /\ UNCHANGED <<env, onSession, mailbox, faults, coord, thread_imap, msgid, all_mail_uid, post_inbox,
                 how, result, attempts, lagged, sleeps, storeOK, moves, marked, err, target, mutations>>

\* Lines 259-286: every check of the resolve step that fails ends the
\* attempt with `continue`.
UnresolvedIsDone == "return"
Unresolved == "continue"

\* Lines 259-286: the resolve step has succeeded when every call answered OK,
\* the header held a Message-ID and the search listed a UID.
ResolvedOrLagging(r, fetched) == fetched /\ r \in {"OK", "search empty"}
Resolved(r, fetched) == fetched /\ r = "OK"

\* Lines 248-288: an attempt begins: connect and log in; select INBOX and
\* fetch the Message-ID header of inbox_uid (a UID that INBOX no longer holds
\* fetches nothing: hdr[0] is no tuple); select All Mail, search it for the
\* Message-ID and take the first UID. Of these calls only the fetch depends
\* on what other threads do.
Resolve(u) ==
  /\ Settled
  /\ pc[u] = "resolve"
  /\ attempts' = [attempts EXCEPT ![u] = @ + 1]
  /\ \E r \in {"connect raises", "login raises",
               "select INBOX raises", "select INBOX NO",
               "fetch raises", "fetch NO", "no Message-ID",
               "select All Mail raises", "select All Mail NO",
               "search raises", "search NO", "search empty", "OK"} :
       LET fetched == r \in {"select All Mail raises", "select All Mail NO",
                             "search raises", "search NO", "search empty", "OK"}
                        /\ INBOX \in labels[InboxMsg(u)]
           id == msgidOf[InboxMsg(u)]
       IN
       /\ Reached(r)
       /\ IF NoSuchFolder(r) THEN UNCHANGED faults ELSE Inject(r) /\ Count(r)
       /\ thread_imap' = [thread_imap EXCEPT ![u] =
                            IF r = "connect raises" THEN "None" ELSE "open"]
       /\ IF r = "connect raises" THEN UNCHANGED onSession ELSE Command(u)
       /\ msgid' = [msgid EXCEPT ![u] = IF fetched THEN id ELSE @]
       /\ lagged' = [lagged EXCEPT ![u] = @ \/ (fetched /\ r = "search empty")]
       /\ IF Resolved(r, fetched)
            THEN /\ all_mail_uid' = [all_mail_uid EXCEPT ![u] =
                                       ResolvedUid(u, SearchAllMail(id))]
                 /\ Goto(u, StepAfter("resolve"))
            ELSE /\ Leave(u, Unresolved,
                          r \in {"connect raises", "login raises", "select INBOX raises",
                                 "fetch raises", "select All Mail raises", "search raises"})
                 /\ UNCHANGED all_mail_uid
  /\ UNCHANGED <<env, mailbox, coord, queue, attempt, post_inbox, result, invoked, sleeps,
                 storeOK, moves, marked, target, mutations>>

\* How a \Seen STORE was answered in outcome r of a step, if it was issued.
Answer(r) ==
  IF r = "OK" THEN "OK" ELSE IF r = "seen NO" THEN "NO"
  ELSE IF r = "seen raises" THEN "raise" ELSE "none"

\* Lines 290-295: remove \Inbox from the All Mail UID and, if that answered
\* OK, mark the UID \Seen (the answer of the second STORE is not looked at).
Mutate(u) ==
  /\ Settled
  /\ pc[u] = "mutate"
  /\ \E r \in {"store raises", "store NO", "seen raises", "seen NO", "OK"} :
       LET uid == all_mail_uid[u]
           stored == r \in {"seen raises", "seen NO", "OK"}
           done == ArchiveMutation([labels |-> labels, seen |-> seen], uid)
       IN
       /\ Inject(r)
       /\ Count(r)
       /\ Command(u)
       /\ labels' = IF stored THEN done.labels ELSE labels
       /\ seen' = IF r = "OK" THEN done.seen ELSE seen
       /\ storeOK' = [storeOK EXCEPT ![u] = stored]
       /\ marked' = [marked EXCEPT ![u].after = Answer(r)]
       /\ target' = [target EXCEPT ![u] = uid]
       /\ mutations' = IF r = "OK"
                         THEN [mutations EXCEPT ![AllMailMsg(uid)] = IF @ < 2 THEN @ + 1 ELSE @]
                         ELSE mutations
       /\ IF r \in {"store raises", "seen raises"}
            THEN Leave(u, "continue", TRUE)
            ELSE Goto(u, StepAfter("mutate"))
  /\ UNCHANGED <<env, msgidOf, coord, queue, attempt, thread_imap, msgid, all_mail_uid,
                 post_inbox, result, invoked, attempts, lagged, sleeps, moves>>

\* Lines 297-304: select INBOX read-only (its status is overwritten), search
\* INBOX for the Message-ID. A failed select leaves no folder selected, so
\* the search raises; a search answered NO carries the error text as data,
\* which line 300 takes for UIDs; a stale index still lists the message
\* whose \Inbox label was just removed.
Verify(u) ==
  /\ Settled
  /\ pc[u] = "verify"
  /\ \E r \in {"select raises", "select NO", "search raises", "search NO",
               "stale", "OK"} :
       LET hits == VerificationQuery(labels, msgid[u])
           post == IF r = "search NO" THEN Split("NO", {})
                   ELSE Split("OK", IF r = "stale" THEN {u} ELSE hits)
       IN
       /\ Inject(r)
       /\ Count(r)
       /\ Command(u)
       /\ r = "stale" => hits = {}
       /\ IF r \in {"select raises", "select NO", "search raises"}
            THEN /\ Leave(u, "continue", TRUE)
                 /\ UNCHANGED post_inbox
            ELSE /\ post_inbox' = [post_inbox EXCEPT ![u] = post]
                 /\ IF post.kind = "empty"
                      THEN Leave(u, "return", FALSE)
                      ELSE Goto(u, StepAfter("verify"))
  /\ UNCHANGED <<env, mailbox, coord, queue, attempt, thread_imap, msgid, all_mail_uid,
                 result, invoked, attempts, lagged, sleeps, storeOK, moves, marked, target, mutations>>

\* Lines 308-315: after the fallback, True is returned when the MOVE
\* answered OK (whatever the \Seen STORE then answers, unless it raises);
\* any other answer ends the attempt with `continue`.
ReturnsAfterMoveAttempt(r) == r \in {"move NO", "seen NO", "OK"}
ReturnsAfterMove(r) == r \in {"seen NO", "OK"}

\* Lines 305-315: select INBOX, UID MOVE inbox_uid to All Mail and, if that
\* answered OK, STORE \Seen on all_mail_uid (with INBOX still selected).
Fallback(u) ==
  /\ Settled
  /\ pc[u] = "fallback"
  /\ \E r \in {"select raises", "select NO", "move raises", "move NO",
               "seen raises", "seen NO", "OK"} :
       LET moved == r \in {"seen raises", "seen NO", "OK"}
           after == IF moved THEN UidMove(labels, u) ELSE labels
       IN
       /\ Inject(r)
       /\ Count(r)
       /\ Command(u)
       /\ moves' = [moves EXCEPT ![u] =
                      IF r \in {"select raises", "select NO"} THEN @
                      ELSE Append(@, IF moved THEN "OK"
                                     ELSE IF r = "move NO" THEN "NO" ELSE "raise")]
       /\ marked' = [marked EXCEPT ![u].fallback = Answer(r)]
       /\ labels' = after
       /\ seen' = IF r = "OK" THEN StoreSeenInbox(after, seen, all_mail_uid[u]) ELSE seen
       /\ Leave(u, IF ReturnsAfterMove(r) THEN "return" ELSE "continue",
                r \in {"select raises", "select NO", "move raises", "seen raises"})
  /\ UNCHANGED <<env, msgidOf, coord, queue, attempt, thread_imap, msgid, all_mail_uid,
                 post_inbox, result, invoked, attempts, lagged, sleeps, storeOK, target, mutations>>

\* Lines 322-327: the finally clause logs the attempt's session out.
NoLogout(sess) == sess
Finally(sess) == IF sess = "open" THEN "closed" ELSE sess

\* The finally clause runs; logout may itself raise, which line 326 swallows.
Logout(u) ==
  /\ pc[u] = "finally"
  /\ thread_imap' = [thread_imap EXCEPT ![u] = Finally(@)]
  /\ \E lo \in (IF Finally(thread_imap[u]) # thread_imap[u]
                  THEN {"OK", "raises"} ELSE {"not called"}) :
       err' = [err EXCEPT ![u] = IF lo = "raises" THEN @ \cup {"logout"} ELSE @]
  /\ IF Finally(thread_imap[u]) # thread_imap[u] THEN Command(u) ELSE UNCHANGED onSession
  /\ pc' = [pc EXCEPT ![u] = "after"]
  /\ UNCHANGED <<env, mailbox, faults, coord, queue, attempt, msgid, all_mail_uid, post_inbox,
                 how, result, invoked, attempts, lagged, sleeps, storeOK, moves, marked, target, mutations>>

\* Lines 329-331: the backoff sleep, for a try statement left by falling
\* out of it.
Backoff(slept, exit, n) ==
  IF exit = "fall" /\ n < MaxRetries - 1 THEN Append(slept, Pow2(n)) ELSE slept

\* Line 333: the budget is exhausted; e holds the last attempt's errors.
Reraise(e) == IF e # {} THEN "raised" ELSE "False"
Exhausted(e) == "False"

\* range(max_retries) of line 247: is there an attempt after attempt n.
OneMore(n) == n + 1 < MaxRetries + 1
HasNext(n) == n + 1 < MaxRetries

\* Lines 247-248, 304, 312, 329-333: what follows the finally clause: the
\* pending return, or the next iteration of the loop, or line 333 when the
\* loop is exhausted. The next iteration binds thread_imap, msgid,
\* all_mail_uid and post_inbox anew before it reads them, so they and the
\* observations of the attempt are cleared here.
Loop(u) ==
  /\ pc[u] = "after"
  /\ sleeps' = [sleeps EXCEPT ![u] = Backoff(@, how[u], attempt[u])]
  /\ IF how[u] = "return"
       THEN /\ result' = [result EXCEPT ![u] = "True"]
            /\ pc' = [pc EXCEPT ![u] = "done"]
            /\ UNCHANGED attempt
       ELSE IF HasNext(attempt[u])
         THEN /\ attempt' = [attempt EXCEPT ![u] = @ + 1]
              /\ pc' = [pc EXCEPT ![u] = "resolve"]
              /\ UNCHANGED result
         ELSE /\ result' = [result EXCEPT ![u] = Exhausted(err[u])]
              /\ pc' = [pc EXCEPT ![u] = "done"]
              /\ UNCHANGED attempt
  /\ thread_imap' = [thread_imap EXCEPT ![u] = "None"]
  /\ how' = [how EXCEPT ![u] = "none"]
  /\ err' = [err EXCEPT ![u] = {}]
  /\ post_inbox' = [post_inbox EXCEPT ![u] = Unset]
  /\ storeOK' = [storeOK EXCEPT ![u] = FALSE]
  /\ moves' = [moves EXCEPT ![u] = <<>>]
  /\ marked' = [marked EXCEPT ![u] = [after |-> "none", fallback |-> "none"]]
  /\ msgid' = [msgid EXCEPT ![u] = 0]
  /\ all_mail_uid' = [all_mail_uid EXCEPT ![u] = 0]
  /\ target' = [target EXCEPT ![u] = 0]
  /\ onSession' = [onSession EXCEPT ![u] = {}]
  /\ UNCHANGED <<env, mailbox, faults, coord, queue, invoked, attempts, lagged, mutations>>

----------------------------------------------------------------------------
Next ==
  \/ Query
  \/ Submit
  \/ \E u \in Msgs : Collect(u)
  \/ Finish
  \/ SecondPass
  \/ \E u \in Msgs : Start(u)
  \/ \E u \in Msgs : Resolve(u)
  \/ \E u \in Msgs : Mutate(u)
  \/ \E u \in Msgs : Verify(u)
  \/ \E u \in Msgs : Fallback(u)
  \/ \E u \in Msgs : Logout(u)
  \/ \E u \in Msgs : Loop(u)

Spec == Init /\ [][Next]_vars

\* A sweep in an account whose messages have distinct Message-IDs, run by
\* threads that the operating system keeps scheduling: every step of the
\* coordinator and of a worker is a computation or a network call that
\* returns, so while some thread has a next step, a step is taken.
InitLive == Init /\ msgidOf = [m \in Msgs |-> m]
Scheduling == WF_vars(Next)
SpecLive == InitLive /\ [][Next]_vars /\ Scheduling
\* A sweep by an archiver constructed from any config.yml.
InitConfig ==
  /\ labels = [m \in 1..NumMsgs |-> {USER_LABEL, INBOX}]
  /\ Fresh
  /\ faults = 0
  /\ selectable = {"INBOX", "All Mail"}
  /\ config \in {LoadConfig(yaml) : yaml \in ConfigFiles}
  /\ imap = "connected"
  /\ listing = [raises |-> FALSE, folders |-> <<>>]
  /\ resolved = NotCalled
  /\ NoCleaner
  /\ NoSession
SpecConfig == InitConfig /\ [][Next]_vars

\* find_all_mail_folder called once, with or without a session, on any listing.
InitFolders ==
  /\ NoSweep
  /\ config = LoadConfig(<<>>)
  /\ imap \in {"None", "connected"}
  /\ listing \in Listings
  /\ resolved = NotCalled
  /\ NoCleaner
  /\ NoSession
NextFolders == FindAllMailFolder /\ UNCHANGED sweep
SpecFolders == InitFolders /\ [][NextFolders]_vars

\* The trash cleaner's main loop.
InitCleaner ==
  /\ NoSweep
  /\ config = LoadConfig(<<>>)
  /\ imap = "connected"
  /\ listing = [raises |-> FALSE, folders |-> <<>>]
  /\ resolved = NotCalled
  /\ NoCleaner
  /\ NoSession
NextCleaner == Construct \/ Connect \/ Clean \/ Disconnect \/ Wait \/ Handler
SpecCleaner == InitCleaner /\ [][NextCleaner]_vars

\* An archiver and a trash cleaner, constructed, whose connect and disconnect
\* are called in any order.
InitSession ==
  /\ NoSweep
  /\ config = LoadConfig(<<>>)
  /\ imap = "None"
  /\ listing = [raises |-> FALSE, folders |-> <<>>]
  /\ resolved = NotCalled
  /\ mpc = "construct"
  /\ gmail = "bound"
  /\ gmail_imap = "None"
  /\ pending = "none"
  /\ ended_by = "none"
  /\ cycles = 0
  /\ connects = 0
  /\ disconnects = 0
  /\ NoSession
NextSession == \E o \in Objects : CallConnect(o) \/ CallDisconnect(o)
SpecSession == InitSession /\ [][NextSession]_vars

\* The label lister counting the inbox messages of one label, in any mailbox.
InitLister ==
  /\ labels \in [1..NumMsgs -> {{USER_LABEL, INBOX}, {USER_LABEL}, {INBOX}}]
  /\ Fresh
  /\ faults = 0
  /\ selectable = {"INBOX", "All Mail"}
  /\ NoResolver
  /\ NoCleaner
  /\ NoSession
NextLister == ListerTop \/ ListerSelect \/ ListerSearch
SpecLister == InitLister /\ [][NextLister]_vars

\* The trash cleaner deleting from a trash of any size up to MaxTrash. Each
\* step is a call to the server that returns or raises, so the call goes on
\* as long as it has a next step.
InitDelete ==
  /\ NoSweep
  /\ config = LoadConfig(<<>>)
  /\ imap = "connected"
  /\ listing = [raises |-> FALSE, folders |-> <<>>]
  /\ resolved = NotCalled
  /\ NoCleaner
  /\ calls = <<>>
  /\ NoLister
  /\ NoManager
  /\ \E n \in 0..MaxTrash : \E refused \in SUBSET (1..n) : deleter = Called(n, refused)
NextDelete == DeleterSelect \/ DeleterSearch \/ DeleterStore \/ DeleterExpunge
SpecDelete == InitDelete /\ [][NextDelete]_vars /\ WF_vars(NextDelete)

\* A GmailManager deleting from a trash of up to MaxTrash messages dated
\* within the last LimitDays days; each step is a call that returns or
\* raises, so the call goes on as long as it has a next step.
InitManager ==
  /\ NoSweep
  /\ config = LoadConfig(<<>>)
  /\ imap = "connected"
  /\ listing = [raises |-> FALSE, folders |-> <<>>]
  /\ resolved = NotCalled
  /\ NoCleaner
  /\ calls = <<>>
  /\ NoLister
  /\ NoDeleter
  /\ \E n \in 0..MaxTrash : \E days \in [1..n -> 0..LimitDays] :
       \E refused \in SUBSET (1..n) : manager = ManagerCalled(days, refused)
NextManager ==
  \/ ManagerSelect \/ ManagerWindow \/ ManagerHandler
  \/ ManagerStore \/ ManagerExpunge \/ ManagerAgain
SpecManager == InitManager /\ [][NextManager]_vars /\ WF_vars(NextManager)

\* The sweep with a keyboard interrupt that may arrive at any moment.
NextPool == Next \/ Interrupt \/ Shutdown
SpecPool == InitPool /\ [][NextPool]_vars

----------------------------------------------------------------------------
\* Properties

Candidates == {inbox_uids[i] : i \in 1..Len(inbox_uids)}
Failed == {u \in Candidates : result[u] = "False"}
SweepOver == cpc \in {"second", "done"}

\* C1 (no data loss): every message keeps the user's classification label
\* at every moment of the sweep; the only label a message ever loses is
\* \Inbox.
NoDataLoss ==
  \A m \in Msgs : USER_LABEL \in labels[m] /\ labels[m] \subseteq {USER_LABEL, INBOX}

\* A message reported archived has left INBOX and still carries the label.
NoDataLossWitness ==
  \E u \in Msgs : /\ result[u] = "True"
                  /\ labels[InboxMsg(u)] = {USER_LABEL}

\* C2 (retry budget): no message is attempted more than max_retries times
\* or handed to a worker twice; a message reported failed was attempted
\* exactly max_retries times, and a message with a result is not running.
RetryBudget ==
  \A u \in Msgs :
    /\ attempts[u] <= MaxRetries
    /\ invoked[u] <= 1
    /\ result[u] = "False" => attempts[u] = MaxRetries
    /\ result[u] # "pending" => pc[u] = "done"

RetryBudgetWitness ==
  \E u \in Msgs : result[u] = "False" /\ attempts[u] = MaxRetries /\ faults = MaxFaults

\* C3 (backoff), as claimed: when attempt k+1 begins, the worker has slept
\* 2^0, ..., 2^(k-1) seconds after the k failed attempts before it, and it
\* never sleeps after the last attempt.
BackoffBetweenAttempts ==
  \A u \in Msgs :
    /\ pc[u] = "resolve" => sleeps[u] = [i \in 1..attempt[u] |-> Pow2(i - 1)]
    /\ Len(sleeps[u]) <= MaxRetries - 1

\* C4 (partial failure isolation): when the coordinator has finished with N
\* candidates of which K failed, archived = N - K, progress = N, every
\* candidate was handed to a worker exactly once and collected.
PartialFailureIsolation ==
  SweepOver =>
    /\ archived = Len(inbox_uids) - Cardinality(Failed)
    /\ pbar = Len(inbox_uids)
    /\ collected = Candidates
    /\ \A u \in Candidates : invoked[u] = 1 /\ result[u] # "pending"

PartialFailureWitness ==
  /\ cpc = "done"
  /\ Len(inbox_uids) = NumMsgs
  /\ Cardinality(Failed) = 1
  /\ archived = NumMsgs - 1

\* C5 (session release): once the finally clause of an attempt has run, and
\* so before the next attempt begins or the worker returns, the attempt's
\* session is not left open, however the attempt ended.
SessionRelease ==
  \A u \in Msgs :
    pc[u] \in {"new", "queued", "after", "resolve", "done"} => thread_imap[u] # "open"

\* An attempt that raised with its session open has had it logged out.
SessionReleaseWitness ==
  \E u \in Msgs : pc[u] = "after" /\ thread_imap[u] = "closed" /\ "try" \in err[u]

\* C6 (fallback), as claimed: an attempt whose \Inbox removal answered OK
\* and whose verification still found the message has issued exactly one
\* UID MOVE when it ends, and if that MOVE answered OK the attempt returns
\* True.
FallbackReportsArchived ==
  \A u \in Msgs :
    (storeOK[u] /\ post_inbox[u].kind = "found") =>
      /\ (pc[u] = "finally" /\ moves[u] # <<>> /\ moves[u][1] = "OK") => how[u] = "return"
      /\ pc[u] = "after" => Len(moves[u]) = 1

BridgingCorrect ==
  \A u \in Msgs :
    /\ all_mail_uid[u] # 0 =>
         /\ msgid[u] = msgidOf[InboxMsg(u)]
         /\ msgidOf[AllMailMsg(all_mail_uid[u])] = msgid[u]
    /\ target[u] # 0 => msgidOf[AllMailMsg(target[u])] = msgidOf[InboxMsg(u)]

\* The removal was issued on a UID that differs from the INBOX UID.
BridgingWitness ==
  \E u \in Msgs : storeOK[u] /\ target[u] # 0 /\ target[u] # u

\* C9 (error containment), as claimed: every error raised during an attempt,
\* logout included, makes the attempt a failed one.
EveryErrorFailsAttempt ==
  \A u \in Msgs : (pc[u] = "after" /\ err[u] # {}) => how[u] = "continue"

\* C9, amended: the future of a message never holds an error; an error
\* raised in the try body makes the attempt a failed one (an error raised
\* by logout is swallowed and leaves the outcome as it was); a message that
\* failed on all attempts has result False and the sweep goes on.
ErrorsContained ==
  \A u \in Msgs :
    /\ result[u] \in {"pending", "True", "False"}
    /\ (pc[u] = "after" /\ "try" \in err[u]) => how[u] = "continue"
    /\ result[u] = "False" => cpc \in {"submit", "collect", "second", "done"}

\* The last attempt of a message ended with an error.
ErrorsContainedWitness ==
  \E u \in Msgs : /\ pc[u] = "after"
                  /\ "try" \in err[u]
                  /\ attempt[u] = MaxRetries - 1

\* C10 (worker fault isolation): a failed message is not counted as
\* archived, and a failure cancels nothing: every candidate is submitted
\* and, once the coordinator has left the pool, every other candidate has
\* run to its own result and was collected.
FaultIsolation ==
  /\ archived = Cardinality({u \in collected : result[u] = "True"})
  /\ \A u \in Failed : \A v \in Candidates :
       /\ cpc # "submit" => pc[v] # "new"
       /\ SweepOver => result[v] # "pending" /\ v \in collected /\ attempts[v] >= 1

\* A message failed and was collected while another was still running,
\* which later succeeded on a retry.
FaultIsolationWitness ==
  \E u, v \in Msgs : /\ cpc = "done"
                     /\ result[u] = "False"
                     /\ result[v] = "True"
                     /\ attempts[v] > 1

\* C11 (bounded parallelism): at every moment of a sweep at most 3 messages
\* are being processed, and at most 3 worker sessions are open, however many
\* candidates there are.
BoundedParallelism ==
  /\ Cardinality(Running) <= MaxWorkers
  /\ Cardinality({u \in Msgs : thread_imap[u] = "open"}) <= MaxWorkers
\* The pool is saturated: three sessions are open while a candidate waits.
BoundedParallelismWitness ==
  /\ Cardinality({u \in Msgs : thread_imap[u] = "open"}) = MaxWorkers
  /\ queue # <<>>

\* C12 (session isolation): every session a worker's attempt issues a command
\* on is the one that very attempt opened; it is never another worker's, never
\* an earlier attempt's and never the orchestrator's session.
SessionIsolation ==
  \A u \in Msgs :
    /\ \A s \in onSession[u] : s = <<u, attempt[u]>> /\ s # SelfImap
    /\ \A v \in Msgs \ {u} : onSession[u] \cap onSession[v] = {}
\* Two workers hold sessions at once, one of them in a later attempt, while
\* the orchestrator waits for them.
SessionIsolationWitness ==
  \E u, v \in Msgs :
    /\ u # v /\ cpc = "collect"
    /\ onSession[u] # {} /\ onSession[v] # {}
    /\ thread_imap[u] = "open" /\ thread_imap[v] = "open"
    /\ attempt[u] >= 1

\* C13 (commutativity across messages): the final mailbox and the aggregate
\* count of a sweep do not depend on the order in which the workers' steps
\* interleave.  When the server answers every call, handling the candidates
\* one after the other from the last to the first takes each of them out of
\* the inbox and counts each of them; every other order must end the same.
Commutativity ==
  (SweepOver /\ faults = 0) =>
    /\ archived = Len(inbox_uids)
    /\ \A u \in Candidates : INBOX \notin labels[InboxMsg(u)]

\* C14 (secondary pass is unconditional): a sweep over a non-empty candidate
\* set runs the mark-read pass exactly once, after all the per-message work is
\* over, however many messages failed.
PerMessageWorkOver ==
  /\ queue = <<>>
  /\ collected = Candidates
  /\ \A u \in Candidates : pc[u] = "done" /\ result[u] # "pending"
SecondPassUnconditional ==
  /\ passes <= 1
  /\ (cpc = "done" /\ inbox_uids # <<>>) => passes = 1
  /\ cpc = "second" => passes = 0 /\ PerMessageWorkOver
  /\ passes = 1 => PerMessageWorkOver
\* The pass has run after a sweep in which every candidate failed.
SecondPassUnconditionalWitness ==
  cpc = "done" /\ passes = 1 /\ inbox_uids # <<>> /\ archived = 0

\* C15 (empty candidate set): when the candidate query returns no message the
\* sweep ends normally with no work done: no worker was started, no worker
\* session was opened, and no STORE or MOVE was issued on any session.
EmptyCandidateSet ==
  (cpc = "done" /\ inbox_uids = <<>>) =>
    /\ \A u \in Msgs : /\ pc[u] = "new" /\ invoked[u] = 0 /\ attempts[u] = 0
                        /\ thread_imap[u] = "None" /\ onSession[u] = {}
                        /\ mutations[u] = 0 /\ ~seen[u]
    /\ queue = <<>> /\ future_to_uid = 0
    /\ passes = 0
    /\ archived = 0
\* The query was answered and no labelled message is in the inbox.
EmptyCandidateSetWitness ==
  /\ cpc = "done" /\ inbox_uids = <<>>
  /\ CandidateQuery(labels) = <<>>
  /\ \A m \in Msgs : USER_LABEL \in labels[m]

\* C16 (terminal per-sweep failure): when INBOX or the archive folder cannot
\* be selected at all, the sweep aborts: no message is attempted once the
\* failure has shown, so no message gets a second attempt and the mark-read
\* pass is not run.
TerminalFailureAborts ==
  /\ "INBOX" \notin selectable =>
        /\ future_to_uid = 0 /\ passes = 0
        /\ \A u \in Msgs : attempts[u] = 0
  /\ "All Mail" \notin selectable =>
        /\ passes = 0
        /\ \A u \in Msgs : attempts[u] <= 1

\* C17 (cancellation): after an external interrupt no candidate that had not
\* started is started, and every attempt in flight runs to its end, closing
\* its session, before the sweep is left.
Cancellation ==
  /\ \A u \in not_started : pc[u] \in {"new", "queued"}
  /\ cpc = "interrupted" => \A u \in Msgs : thread_imap[u] # "open"

BudgetFromConfig ==
  /\ \A u \in Msgs : result[u] = "False" => attempts[u] = config["max_retries"]
  /\ \A u \in Msgs : attempts[u] <= config["max_retries"]

\* C20 (the trash cleaner keeps cycling): only a keyboard interrupt ends the
\* main loop; any other error of a cycle, a failing constructor included, is
\* followed by another cycle; and every successful connect has been followed
\* by a disconnect when the next cycle begins or the loop ends.
KeepsCycling ==
  /\ mpc = "ended" => ended_by = "KeyboardInterrupt"
  /\ mpc \in {"construct", "connect", "handler", "wait", "ended"} =>
       connects = disconnects /\ gmail_imap = "None"


\* C21 (disconnect closes, and is idle on a closed object): after disconnect()
\* returns, self.imap is None whether logout() returned or raised; called on an
\* object whose self.imap is already None it issues no logout() and leaves
\* self.imap as it was.
DisconnectCloses ==
  \A i \in 1..Len(calls) :
    calls[i].op = "disconnect" =>
      /\ calls[i].after = "None"
      /\ calls[i].before = "None" => calls[i].logouts = 0 /\ calls[i].logout = "none"
      /\ i = Len(calls) => Field(calls[i].obj) = "None"

\* Both cases have happened to one object: a disconnect() whose logout()
\* raised, and right after it a disconnect() of the closed object.
DisconnectClosesWitness ==
  \E i \in 1..(Len(calls) - 1) :
    /\ calls[i].op = "disconnect"
    /\ calls[i].before = "connected"
    /\ calls[i].logout = "raises"
    /\ calls[i + 1].op = "disconnect"
    /\ calls[i + 1].obj = calls[i].obj
    /\ calls[i + 1].before = "None"

\* C22 (the count comes from a successful search): count_inbox_messages_for_label
\* never raises; what it returns is the result of a SEARCH answered OK on a
\* connected session; and after an exception the session is dropped before
\* the next iteration begins.
CountFromSuccess ==
  /\ lister.pc # "raised"
  /\ lister.pc = "returned" => lister.via = "OK" /\ lister.imap = "connected"
  /\ lister.pc = "top" /\ lister.exit = "exception" => lister.imap = "None"


\* C23 (intra-message ordering): within one attempt the \\Inbox removal is
\* issued only on a resolved All Mail UID, the verification only after the
\* removal was issued, and the UID MOVE only after the verification found
\* the message; a step that is about to run has none of the later ones
\* behind it.
IntraMessageOrdering ==
  \A u \in Msgs :
    /\ target[u] # 0 => all_mail_uid[u] # 0 /\ msgid[u] # 0
    /\ pc[u] = "mutate" => /\ all_mail_uid[u] # 0
                           /\ target[u] = 0 /\ post_inbox[u].kind = "unset" /\ moves[u] = <<>>
    /\ pc[u] = "verify" => target[u] # 0 /\ post_inbox[u].kind = "unset" /\ moves[u] = <<>>
    /\ post_inbox[u].kind # "unset" => target[u] # 0
    /\ pc[u] = "fallback" => post_inbox[u].kind # "unset" /\ moves[u] = <<>>
    /\ moves[u] # <<>> => post_inbox[u].kind # "unset"

\* An attempt has gone through all four steps.
IntraMessageOrderingWitness ==
  \E u \in Msgs :
    /\ all_mail_uid[u] # 0
    /\ target[u] # 0
    /\ post_inbox[u].kind = "found"
    /\ moves[u] # <<>>


\* C24 (fallback only after a failed verification): an attempt has issued a
\* UID MOVE only if its verification search listed the message in INBOX; an
\* attempt whose verification search found INBOX without the message issues
\* none.
MoveOnlyIfStillInInbox ==
  \A u \in Msgs :
    /\ moves[u] # <<>> => post_inbox[u].kind = "found"
    /\ post_inbox[u].kind = "empty" => moves[u] = <<>> /\ pc[u] # "fallback"


\* C25 (mark read after the fallback): when the \\Seen STORE that follows a
\* successful UID MOVE has answered OK, the relocated message is read: the
\* STORE went to the message's UID in All Mail, in All Mail's UID space.
MarkedReadAfterMove ==
  \A u \in Msgs :
    (moves[u] # <<>> /\ moves[u][1] = "OK" /\ marked[u].fallback = "OK") => seen[InboxMsg(u)]


\* C26 (what the verification asks), as claimed: the query a worker is about
\* to run as its verification lists what the candidate query of line 369
\* lists.
VerifiesByCandidateQuery ==
  \A u \in Msgs :
    pc[u] = "verify" =>
      VerificationQuery(labels, msgid[u]) = {CandidateQuery(labels)[i] :
                                              i \in 1..Len(CandidateQuery(labels))}

\* C26, amended: the verification search lists inbox messages with the
\* attempt's own Message-ID only, whatever else the candidate query would
\* list; when it lists none the attempt returns True, and no inbox message
\* carries that Message-ID.
VerifiesByMessageId ==
  \A u \in Msgs :
    post_inbox[u].kind \in {"empty", "found"} =>
      /\ \A uid \in post_inbox[u].uids : msgidOf[InboxMsg(uid)] = msgid[u]
      /\ post_inbox[u].kind = "empty" =>
           /\ how[u] = "return"
           /\ \A m \in Msgs : msgidOf[m] = msgid[u] => INBOX \notin labels[m]

\* A verification found nothing while the candidate query still lists
\* another message.
VerifiesByMessageIdWitness ==
  \E u \in Msgs :
    /\ post_inbox[u].kind = "empty"
    /\ pc[u] = "finally"
    /\ CandidateQuery(labels) # <<>>


\* C27 (mark-read is best-effort): when the \\Seen STORE that follows the
\* \\Inbox removal is answered with a non-OK status or raises, the attempt's
\* next step is the verification.
MarkReadBestEffort ==
  [][\A u \in Msgs :
       (pc[u] = "mutate" /\ marked'[u].after \in {"NO", "raise"}) => pc'[u] = "verify"]_vars


\* C28 (tie-break): the All Mail UID an attempt resolves is the first one of
\* the search answer for its Message-ID, the \\Inbox removal is issued on that
\* UID, and a message whose UID comes later in that answer is never put
\* through the archive mutation.
FirstUidOnly ==
  /\ \A u \in Msgs :
       /\ all_mail_uid[u] # 0 =>
            all_mail_uid[u] = Min({AllMailUid(m) : m \in {x \in Msgs : msgidOf[x] = msgid[u]}})
       /\ target[u] # 0 => target[u] = all_mail_uid[u]
  /\ \A m \in Msgs :
       (\E x \in Msgs : msgidOf[x] = msgidOf[m] /\ AllMailUid(x) < AllMailUid(m))
         => mutations[m] = 0

\* The search answered with several UIDs, and the removal on the first one
\* was answered OK while the other message is still in the inbox.
FirstUidOnlyWitness ==
  \E u \in Msgs :
    /\ msgid[u] # 0
    /\ Len(SearchAllMail(msgid[u])) > 1
    /\ storeOK[u]
    /\ target[u] = SearchAllMail(msgid[u])[1]
    /\ \E m \in Msgs : msgidOf[m] = msgid[u] /\ AllMailUid(m) # target[u] /\ INBOX \in labels[m]


\* C29 (archive-index lag is retried): an attempt that ends without an All
\* Mail UID, as one whose search found no match does, has issued no mutation
\* and counts as failed; a message that had such an attempt is reported
\* failed only when all max_retries attempts were made, and its result is
\* then False.
LagIsRetried ==
  \A u \in Msgs :
    /\ (pc[u] \in {"finally", "after"} /\ all_mail_uid[u] = 0) =>
         how[u] = "continue" /\ target[u] = 0 /\ moves[u] = <<>>
    /\ lagged[u] =>
         /\ attempts[u] >= 1
         /\ result[u] = "False" => attempts[u] = MaxRetries
         /\ (pc[u] = "done" /\ attempts[u] < MaxRetries) => result[u] = "True"

\* A message whose first attempt found no match in All Mail was archived by
\* a later attempt and counted by the coordinator.
LagIsRetriedWitness ==
  \E u \in Msgs :
    /\ lagged[u]
    /\ attempts[u] > 1
    /\ result[u] = "True"
    /\ INBOX \notin labels[InboxMsg(u)]
    /\ u \in collected
    /\ archived >= 1


\* C30 (the secondary pass covers the whole account): when the coordinator is
\* about to run the mark-read pass, its unread query lists every message of
\* the account that carries the label and is unread, in the inbox or not.
SecondPassWholeAccount ==
  cpc = "second" =>
    {InboxMsg(uid) : uid \in UnreadQuery(labels, seen)}
      = {m \in Msgs : USER_LABEL \in labels[m] /\ ~seen[m]}


\* C31 (matching order of the Folder Resolver): called on a session with a
\* listing that is answered, find_all_mail_folder returns the first folder
\* that carries the \\All attribute flag when there is one; the first folder
\* whose name contains a known localized name when no folder carries the
\* flag; and the default name only when there is neither.
ResolverMatchingOrder ==
  (/\ imap = "connected"
   /\ resolved.kind = "returned"
   /\ ~listing.raises
   /\ \A i \in 1..Len(listing.folders) : listing.folders[i].bytes) =>
    LET flagged == {i \in 1..Len(listing.folders) : "\\All" \in listing.folders[i].attrs}
        named == {i \in 1..Len(listing.folders) :
                    \E mk \in Markers : Contains(listing.folders[i].name.words, mk)}
    IN IF flagged # {} THEN resolved.name = listing.folders[Min(flagged)].name
       ELSE IF named # {} THEN resolved.name = FolderName(listing.folders[Min(named)])
       ELSE resolved.name = DefaultFolder


\* C32 (the count belongs to the coordinator): `archived` changes only in a
\* step of the as_completed loop that takes one more finished future, by one
\* and for a True outcome, while no worker moves; at every moment it is the
\* number of True outcomes among the futures taken so far, and so never more
\* than the number of futures taken.
CountedByCoordinator ==
  [][/\ archived' # archived =>
          /\ cpc = "collect"
          /\ pc' = pc /\ result' = result
          /\ archived' = archived + 1
          /\ \E u \in collected' \ collected :
               collected' = collected \cup {u} /\ result[u] = "True"
     /\ archived' = Cardinality({u \in collected' : result'[u] = "True"})
     /\ archived' <= Cardinality(collected')]_vars

\* A success has been counted while another worker is still in its attempt.
CountedByCoordinatorWitness ==
  /\ archived = 1
  /\ Cardinality(collected) = 1
  /\ \E v \in Msgs : pc[v] \notin {"new", "queued", "done"} /\ attempts[v] >= 1


\* C33 (sweep termination): with every network call returning, a sweep whose
\* candidate query listed N messages comes to the summary of line 401: by
\* then every candidate's worker has returned True or False after at most 3
\* attempts and the coordinator has taken all N outcomes; and the call ends.
SweepTerminates ==
  /\ (cpc = "submit") ~>
       (/\ cpc = "second"
        /\ collected = Candidates
        /\ pbar = Len(inbox_uids)
        /\ \A u \in Candidates :
             /\ pc[u] = "done"
             /\ result[u] \in {"True", "False"}
             /\ attempts[u] \in 1..MaxRetries)
  /\ <>(cpc \in {"done", "raised"})

\* The summary is reached after a worker used all three attempts.
SweepTerminatesWitness ==
  /\ cpc = "second"
  /\ Candidates # {}
  /\ collected = Candidates
  /\ \E u \in Candidates : attempts[u] = MaxRetries /\ result[u] = "False"


\* C34 (what True rests on): an attempt of process_single_message ends with
\* `return True` only after its verification search was answered, and then
\* only if that search listed nothing or the fallback UID MOVE answered OK;
\* and a message for which True was returned is not in the inbox.
TrueOnlyIfVerified ==
  \A u \in Msgs :
    /\ (pc[u] \in {"finally", "after"} /\ how[u] = "return") =>
         /\ post_inbox[u].kind # "unset"
         /\ \/ post_inbox[u].kind = "empty" /\ moves[u] = <<>>
            \/ post_inbox[u].kind # "empty" /\ moves[u] = <<"OK">>
         /\ INBOX \notin labels[InboxMsg(u)]
    /\ result[u] = "True" => INBOX \notin labels[InboxMsg(u)]
    /\ (pc[u] \in {"finally", "after"} /\ post_inbox[u].kind = "unset") => how[u] = "continue"

\* True is about to be returned on the strength of the fallback MOVE, after
\* a verification search that still listed the message.
TrueOnlyIfVerifiedWitness ==
  \E u \in Msgs :
    /\ pc[u] = "after" /\ how[u] = "return"
    /\ post_inbox[u].kind = "found" /\ u \in post_inbox[u].uids
    /\ moves[u] = <<"OK">>


\* C35 (a failed resolve step mutates nothing): a resolve step that ends
\* without an All Mail UID (INBOX not selected, no Message-ID in the header,
\* All Mail not selected, no search result) ends the attempt with `continue`
\* and changes no label and no flag; what is left of that attempt, the
\* logout and the loop control, issues no STORE and no MOVE either.
ResolveFailureMutatesNothing ==
  [][\A u \in Msgs :
       /\ (/\ pc[u] = "resolve" /\ pc'[u] # "resolve"
           /\ all_mail_uid'[u] = 0 \/ (lagged'[u] /\ ~lagged[u])) =>
            /\ pc'[u] = "finally" /\ how'[u] = "continue"
            /\ all_mail_uid'[u] = 0
            /\ labels' = labels /\ seen' = seen /\ mutations' = mutations
       /\ (pc[u] \in {"finally", "after"} /\ all_mail_uid[u] = 0) =>
            /\ labels' = labels /\ seen' = seen /\ mutations' = mutations
            /\ target[u] = 0 /\ ~storeOK[u] /\ moves[u] = <<>>
            /\ marked[u] = [after |-> "none", fallback |-> "none"]
            /\ post_inbox[u] = Unset
            /\ pc'[u] \in {"finally", "after", "resolve", "done"}]_vars

\* A later attempt fetched the Message-ID, got no All Mail UID and is about
\* to be followed by the next one, the message being in the inbox as before.
ResolveFailureWitness ==
  \E u \in Msgs :
    /\ pc[u] = "after" /\ how[u] = "continue"
    /\ all_mail_uid[u] = 0
    /\ msgid[u] # 0
    /\ attempt[u] >= 1
    /\ INBOX \in labels[InboxMsg(u)]


\* C36 (reported archived means marked read): an attempt that is about to
\* return True has issued a \Seen STORE for its message: the STORE of line
\* 295, sent to the message's own UID in All Mail, or the STORE of line 311,
\* sent to a UID that denotes the message in the folder then selected.
SeenStoreIssued ==
  \A u \in Msgs :
    (pc[u] \in {"finally", "after"} /\ how[u] = "return") =>
      \/ marked[u].after \in {"OK", "NO"} /\ AllMailMsg(target[u]) = InboxMsg(u)
      \/ marked[u].fallback \in {"OK", "NO"} /\ InboxUid(InboxMsg(u)) = all_mail_uid[u]
                                               /\ INBOX \in labels[InboxMsg(u)]


\* C37 (the sweep contains its errors): called on a connected archiver,
\* archive_messages_with_label never ends by an exception; an error raised
\* before the first message is processed, by the selection of INBOX or by the
\* candidate query, is caught by the handler of line 432 like any other.
SweepNeverRaises ==
  cpc # "raised" /\ (cpc = "done" /\ inbox_uids = <<>> => passes = 0 /\ archived = 0)


\* C38 (the trash cleaner's deletion returns): delete_messages_from_trash,
\* called on any finite trash, eventually returns, also when the STORE that
\* flags a message fails on every retry, for some messages or for all.
DeleteReturns == <>(deleter.pc = "returned")


\* C39 (the manager's deletion terminates): GmailManager's
\* delete_messages_from_trash always returns; its window only moves
\* backwards, and the loop is left at the latest when the window is more than
\* 10 years back, also when searches or deletions keep raising.
ManagerReturns ==
  /\ [][manager'.end >= manager.end]_vars
  /\ <>(manager.pc = "returned")

====
